---- MODULE Spec2Model ----
(***************************************************************************)
(* A model of src/config_converter.py: ConfigParser (clean_text,           *)
(* parse_value, parse_dict, parse) and TOMLConverter (escape_string,       *)
(* to_toml).                                                               *)
(*                                                                         *)
(* Text is a sequence of characters.  A character is a one-character TLA+  *)
(* string for printable ASCII and for tab, line feed, form feed and        *)
(* carriage return; the two other control characters of the alphabet are   *)
(* the atoms "BS" (U+0008) and "SOH" (U+0001); "GRAVE" is U+0060.  Ord      *)
(* gives the code point.                                                   *)
(*                                                                         *)
(* A Python value is a record [t, v]:                                      *)
(*   str   v = the characters          int   v = the number                *)
(*   bool  v = TRUE / FALSE            float v = [neg, int, frac]          *)
(*   list  v = the sequence of items   dict  v = function key -> value     *)
(* A dict is a function: the code never depends on insertion order except  *)
(* through to_toml, which sorts the keys.                                  *)
(***************************************************************************)
EXTENDS Integers, Sequences, FiniteSets, TLC

VARIABLES
    constants,  \* self.constants                       (line 12)
    data,       \* the contents of the dict self.data   (line 13)
    ret,        \* what the last parse call returned: "none" or the reference "self.data" (line 218)
    text,       \* the argument of the last parse call
    out,        \* the result of to_toml on the returned tree (line 322), "none" before the call
    dirty,      \* whether the instance held constants and data when parse was last called
    lines,      \* parse_dict, stepwise: the lines argument
    start,      \* parse_dict, stepwise: the start_idx of the outermost call
    stack,      \* parse_dict, stepwise: the frames of the active calls, outermost first
    result,     \* parse_dict, stepwise: whether the outermost call has returned, and its return value
    reads       \* parse_dict, stepwise: the indices of the lines read at line 101, in order

vars == <<constants, data, ret, text, out, dirty, lines, start, stack, result, reads>>

-----------------------------------------------------------------------------
(* Characters *)

Printable ==
    << " ", "!", "\"", "#", "$", "%", "&", "'", "(", ")", "*", "+", ",", "-", ".", "/",
       "0", "1", "2", "3", "4", "5", "6", "7", "8", "9", ":", ";", "<", "=", ">", "?",
       "@", "A", "B", "C", "D", "E", "F", "G", "H", "I", "J", "K", "L", "M", "N", "O",
       "P", "Q", "R", "S", "T", "U", "V", "W", "X", "Y", "Z", "[", "\\", "]", "^", "_",
       "GRAVE", "a", "b", "c", "d", "e", "f", "g", "h", "i", "j", "k", "l", "m", "n", "o",
       "p", "q", "r", "s", "t", "u", "v", "w", "x", "y", "z", "{", "|", "}", "~" >>

Control == {"SOH", "BS", "\t", "\n", "\f", "\r"}

Alphabet == Control \cup {Printable[i] : i \in 1..Len(Printable)}

\* the code point of every character
CodePoint ==
    [c \in Alphabet |->
        CASE c = "SOH" -> 1
          [] c = "BS" -> 8
          [] c = "\t" -> 9
          [] c = "\n" -> 10
          [] c = "\f" -> 12
          [] c = "\r" -> 13
          [] OTHER -> 31 + CHOOSE i \in 1..Len(Printable) : Printable[i] = c]

\* ord(char)
Ord(c) == CodePoint[c]

\* the characters str.strip(), str.rstrip() and the regex class \s remove
IsSpace(c) == c \in {" ", "\t", "\n", "\f", "\r"}

IsDigit(c) == c \in {"0", "1", "2", "3", "4", "5", "6", "7", "8", "9"}

LowerAZ == {c \in Alphabet : CodePoint[c] >= 97 /\ CodePoint[c] <= 122}

UpperAZ == {c \in Alphabet : CodePoint[c] >= 65 /\ CodePoint[c] <= 90}

\* the regex class [a-z]
IsLowerAZ(c) == c \in LowerAZ

\* the regex class [a-z0-9_]
IsNameChar(c) == IsLowerAZ(c) \/ IsDigit(c) \/ c = "_"

\* str.lower() on one character
LowerChar(c) == IF c \in UpperAZ THEN Printable[Ord(c) + 1] ELSE c

-----------------------------------------------------------------------------
(* Strings *)

Lower(s) == [i \in 1..Len(s) |-> LowerChar(s[i])]

StartsWith(s, c) == Len(s) > 0 /\ s[1] = c

EndsWith(s, c) == Len(s) > 0 /\ s[Len(s)] = c

Contains(s, c) == \E i \in 1..Len(s) : s[i] = c

\* s.index(c) + 1, for a character s contains
IndexOf(s, c) == CHOOSE i \in 1..Len(s) : s[i] = c /\ \A j \in 1..(i - 1) : s[j] # c

Min(S) == CHOOSE x \in S : \A y \in S : x <= y

\* whether s holds only whitespace
Blank(s) == \A i \in 1..Len(s) : IsSpace(s[i])

\* the first and the last position of s that hold no whitespace, for an s not blank
FirstSolid(s) == CHOOSE i \in 1..Len(s) : ~IsSpace(s[i]) /\ \A j \in 1..(i - 1) : IsSpace(s[j])

LastSolid(s) == CHOOSE i \in 1..Len(s) : ~IsSpace(s[i]) /\ \A j \in (i + 1)..Len(s) : IsSpace(s[j])

\* s.rstrip()
RStrip(s) == IF Blank(s) THEN <<>> ELSE SubSeq(s, 1, LastSolid(s))

\* s.strip()
Strip(s) == IF Blank(s) THEN <<>> ELSE SubSeq(s, FirstSolid(s), LastSolid(s))

\* the cuts of a sequence at the positions of the set P, the positions left out:
\* piece i lies between the (i-1)th and the ith position of P
Pieces(s, P) ==
    LET Nth(i) == IF i = 0 THEN 0
                  ELSE IF i > Cardinality(P) THEN Len(s) + 1
                  ELSE CHOOSE q \in P : Cardinality({j \in P : j <= q}) = i
    IN  [i \in 1..(Cardinality(P) + 1) |-> SubSeq(s, Nth(i - 1) + 1, Nth(i) - 1)]

\* s.split(sep): the pieces between the occurrences of the character sep
Split(s, sep) == Pieces(s, {i \in 1..Len(s) : s[i] = sep})

\* s.split(sep, 1), for a line that contains sep: what is before and after the first sep
SplitFirst(s, sep) ==
    <<SubSeq(s, 1, IndexOf(s, sep) - 1), SubSeq(s, IndexOf(s, sep) + 1, Len(s))>>

\* sep.join(parts)
RECURSIVE Join(_, _)
Join(parts, sep) ==
    IF parts = <<>> THEN <<>>
    ELSE IF Len(parts) = 1 THEN parts[1]
    ELSE LET half == Len(parts) \div 2
         IN  Join(SubSeq(parts, 1, half), sep) \o sep \o Join(SubSeq(parts, half + 1, Len(parts)), sep)

-----------------------------------------------------------------------------
(* Values *)

PyStr(s) == [t |-> "str", v |-> s]
PyInt(n) == [t |-> "int", v |-> n]
PyBool(b) == [t |-> "bool", v |-> b]
PyFloat(f) == [t |-> "float", v |-> f]
PyList(items) == [t |-> "list", v |-> items]
PyDict(d) == [t |-> "dict", v |-> d]

\* {}
EmptyDict == <<>>

\* d[k] = v
DictSet(d, k, v) == (k :> v) @@ d

DigitValue(c) == Ord(c) - 48

\* str.isdigit()
IsDigitStr(s) == s # <<>> /\ \A i \in 1..Len(s) : IsDigit(s[i])

\* int(s), for s.isdigit()
RECURSIVE ToInt(_)
ToInt(s) == IF s = <<>> THEN 0 ELSE 10 * ToInt(SubSeq(s, 1, Len(s) - 1)) + DigitValue(s[Len(s)])

\* str(n), for an int n >= 0
RECURSIVE IntStr(_)
IntStr(n) == IF n < 10 THEN <<Printable[n + 17]>> ELSE IntStr(n \div 10) \o <<Printable[(n % 10) + 17]>>

\* re.match(r'^-?\d+\.\d+$', s), for a stripped s
FloatMatch(s) ==
    LET body == IF StartsWith(s, "-") THEN Tail(s) ELSE s
    IN  /\ Contains(body, ".")
        /\ IsDigitStr(SubSeq(body, 1, IndexOf(body, ".") - 1))
        /\ IsDigitStr(SubSeq(body, IndexOf(body, ".") + 1, Len(body)))

RECURSIVE DropTrailingZeros(_)
DropTrailingZeros(s) == IF EndsWith(s, "0") THEN DropTrailingZeros(SubSeq(s, 1, Len(s) - 1)) ELSE s

\* float(s), for a match of the float pattern: sign, integer part, fraction digits
\* without trailing zeros (exact for the short decimals the inputs hold)
ToFloat(s) ==
    LET neg  == StartsWith(s, "-")
        body == IF neg THEN Tail(s) ELSE s
        dot  == IndexOf(body, ".")
    IN  [neg |-> neg,
         int |-> ToInt(SubSeq(body, 1, dot - 1)),
         frac |-> DropTrailingZeros(SubSeq(body, dot + 1, Len(body)))]

\* str(f) of a float: positional notation (what Python prints for a float of
\* fewer than 16 significant digits between 1e-4 and 1e16)
FloatStr(f) ==
    (IF f.neg THEN <<"-">> ELSE <<>>) \o IntStr(f.int) \o <<".">>
        \o (IF f.frac = <<>> THEN <<"0">> ELSE f.frac)

-----------------------------------------------------------------------------
(* ConfigParser.parse_value *)

\* lines 66-75: the loop's variables after one more char; quote_char None is ""
ScanStep(st, char) ==
    IF char \in {"'", "\""} /\ ~st.in_quotes
      THEN [in_quotes |-> TRUE, quote_char |-> char, brace_count |-> st.brace_count]
    ELSE IF char = st.quote_char /\ st.in_quotes
      THEN [in_quotes |-> FALSE, quote_char |-> "", brace_count |-> st.brace_count]
    ELSE IF char = "{" /\ ~st.in_quotes
      THEN [in_quotes |-> st.in_quotes, quote_char |-> st.quote_char, brace_count |-> st.brace_count + 1]
    ELSE IF char = "}" /\ ~st.in_quotes
      THEN [in_quotes |-> st.in_quotes, quote_char |-> st.quote_char, brace_count |-> st.brace_count - 1]
    ELSE st

\* lines 61-63 and 65-81: the loop's variables after the first k characters of content
\* (a comma that ends an item leaves them as they are)
RECURSIVE ScanState(_, _)
ScanState(content, k) ==
    IF k = 0 THEN [in_quotes |-> FALSE, quote_char |-> "", brace_count |-> 0]
    ELSE ScanStep(ScanState(content, k - 1), content[k])

\* line 76: the commas that end an item
ItemCommas(content) ==
    {k \in 1..Len(content) :
        /\ content[k] = ","
        /\ ~ScanState(content, k - 1).in_quotes
        /\ ScanState(content, k - 1).brace_count = 0}

\* lines 88-93 with the lookup left out: the word itself
LookupLiteral(s, cs) == PyStr(s)

\* lines 88-93: a constant's value for its name, the word itself otherwise
Lookup(s, cs) == IF s \in DOMAIN cs THEN cs[s] ELSE PyStr(s)

RECURSIVE parse_value(_, _)

\* lines 59-86: every `current` between two such commas is an item; what follows
\* the last comma is one unless it is blank
ScanItems(content, cs) ==
    LET currents == Pieces(content, ItemCommas(content))
        n        == Len(currents)
        kept     == IF Strip(currents[n]) = <<>> THEN n - 1 ELSE n
    IN  [i \in 1..kept |-> parse_value(Strip(currents[i]), cs)]

\* lines 25-93; cs is self.constants
parse_value(value_str, cs) ==
    LET s1 == Strip(value_str) IN
    IF s1 = <<>> THEN PyStr(<<>>)
    ELSE LET s == IF EndsWith(s1, ";") THEN Strip(SubSeq(s1, 1, Len(s1) - 1)) ELSE s1 IN
      IF \/ StartsWith(s, "\"") /\ EndsWith(s, "\"")
         \/ StartsWith(s, "'") /\ EndsWith(s, "'")
        THEN PyStr(SubSeq(s, 2, Len(s) - 1))
      ELSE IF IsDigitStr(s) THEN PyInt(ToInt(s))
      ELSE IF FloatMatch(s) THEN PyFloat(ToFloat(s))
      ELSE IF Lower(s) = <<"t", "r", "u", "e">> THEN PyBool(TRUE)
      ELSE IF Lower(s) = <<"f", "a", "l", "s", "e">> THEN PyBool(FALSE)
      ELSE IF StartsWith(s, "{") /\ EndsWith(s, "}")
        THEN LET content == Strip(SubSeq(s, 2, Len(s) - 1)) IN
             IF content = <<>> THEN PyList(<<>>)
             ELSE PyList(ScanItems(content, cs))
      ELSE Lookup(s, cs)

-----------------------------------------------------------------------------
(* ConfigParser.clean_text *)

\* lines 18-20: one line, cut at the first # and right-trimmed
CleanLine(line) ==
    RStrip(IF Contains(line, "#") THEN SubSeq(line, 1, IndexOf(line, "#") - 1) ELSE line)

\* lines 15-23
clean_text(t) ==
    LET raw  == Split(t, "\n")
        kept == SelectSeq([i \in 1..Len(raw) |-> CleanLine(raw[i])], LAMBDA l : l # <<>>)
    IN  Join(kept, <<"\n">>)

-----------------------------------------------------------------------------
(* The two regular expressions of ConfigParser.parse *)

\* the literal "(define" at position p of t
DefineAt(t, p) ==
    /\ p + 6 <= Len(t)
    /\ t[p] = "("
    /\ SubSeq(t, p + 1, p + 6) = <<"d", "e", "f", "i", "n", "e">>

\* the character classes of the two patterns
InClass(c, class) ==
    CASE class = "space" -> IsSpace(c)
      [] class = "name" -> IsNameChar(c)
      [] class = "value" -> c \notin {")", ";"}
      [] class = "body" -> c # ")"

\* the end of the longest run, from position p of t, of characters of the class:
\* the first position after it
RunEnd(t, p, class) ==
    CHOOSE q \in p..(Len(t) + 1) :
        /\ q > Len(t) \/ ~InClass(t[q], class)
        /\ \A j \in p..(q - 1) : InClass(t[j], class)

\* \s*;? from position p: the first position after it
TrailerEnd(t, p) ==
    LET q == RunEnd(t, p, "space")
    IN  IF q <= Len(t) /\ t[q] = ";" THEN q + 1 ELSE q

\* a match of define_pattern (line 163) starting at position p:
\*   \(define \s+ ([a-z][a-z0-9_]*) \s+ ([^);]+) \) \s* ;?
\* Every run is the longest one, except that the second \s+ gives its last
\* character to group 2 when nothing else is left for it.
MatchDefine(t, p) ==
    LET n0 == RunEnd(t, p + 7, "space")
        n1 == RunEnd(t, n0, "name")
        v0 == RunEnd(t, n1, "space")
        v1 == RunEnd(t, v0, "value")
        ok == /\ DefineAt(t, p)
              /\ n0 > p + 7
              /\ n0 <= Len(t) /\ IsLowerAZ(t[n0])
              /\ v0 > n1
              /\ v1 > v0 \/ v0 > n1 + 1
              /\ v1 <= Len(t) /\ t[v1] = ")"
    IN  [ok |-> ok,
         name |-> IF ok THEN SubSeq(t, n0, n1 - 1) ELSE <<>>,
         value |-> IF ok THEN SubSeq(t, v0, v1 - 1) ELSE <<>>,
         end |-> IF ok THEN TrailerEnd(t, v1 + 1) ELSE p]

\* lines 165-169: re.finditer from position p on, cs the constants so far
RECURSIVE ExtractDefines(_, _, _)
ExtractDefines(t, p, cs) ==
    LET found == {q \in p..Len(t) : MatchDefine(t, q).ok} IN
    IF found = {} THEN cs
    ELSE LET m == MatchDefine(t, Min(found))
         IN  ExtractDefines(t, m.end, DictSet(cs, m.name, parse_value(Strip(m.value), cs)))

\* line 171: re.sub(r'\(define[^)]*\)\s*;?', '', text) from position p on
RECURSIVE StripDefines(_, _)
StripDefines(t, p) ==
    LET found == {q \in p..Len(t) : DefineAt(t, q) /\ RunEnd(t, q + 7, "body") <= Len(t)} IN
    IF found = {} THEN SubSeq(t, p, Len(t))
    ELSE LET q == Min(found)
         IN  SubSeq(t, p, q - 1) \o StripDefines(t, TrailerEnd(t, RunEnd(t, q + 7, "body") + 1))

-----------------------------------------------------------------------------
(* ConfigParser.parse_dict *)

\* What one line means inside a block (lines 101-152), line already stripped:
\*   blank  skipped                 end    closes the block
\*   open   opens a nested block under key
\*   value  binds parse_value(value_part) under key
\*   other  skipped
DictLineEq(line) ==
    LET key        == Strip(SplitFirst(line, "=")[1])
        value_part == Strip(SplitFirst(line, "=")[2])
    IN  IF value_part = <<"{">>
          THEN [kind |-> "open", key |-> key, value_part |-> <<>>]
          ELSE [kind |-> "value", key |-> key, value_part |-> value_part]

DictLine(line) ==
    IF line = <<>> THEN [kind |-> "blank", key |-> <<>>, value_part |-> <<>>]
    ELSE IF line = <<"}">> THEN [kind |-> "end", key |-> <<>>, value_part |-> <<>>]
    ELSE IF Contains(line, ":")
      THEN LET key        == Strip(SplitFirst(line, ":")[1])
               value_part == Strip(SplitFirst(line, ":")[2])
           IN  IF EndsWith(line, "{") \/ value_part = <<"{">>
                 THEN [kind |-> "open", key |-> key, value_part |-> <<>>]
                 ELSE [kind |-> "value", key |-> key, value_part |-> value_part]
    ELSE IF Contains(line, "=") THEN DictLineEq(line)
    ELSE IF EndsWith(line, "{")
      THEN [kind |-> "open", key |-> Strip(SubSeq(line, 1, Len(line) - 1)), value_part |-> <<>>]
    ELSE [kind |-> "other", key |-> <<>>, value_part |-> <<>>]

\* line 109 returning the index of the closing line itself
AfterEndSame(i) == i

\* line 109: the index returned at a closing line read at index i
AfterEnd(i) == i + 1

\* lines 95-154, from the loop's state (result, i) on; ls is lines, indices count
\* from 0 as in the code.  The value is the returned pair.
RECURSIVE parse_dict_from(_, _, _, _)
parse_dict_from(ls, i, res, cs) ==
    IF i >= Len(ls) THEN [dict |-> res, next |-> i]
    ELSE LET l == DictLine(Strip(ls[i + 1])) IN
      CASE l.kind = "blank" -> parse_dict_from(ls, i + 1, res, cs)
        [] l.kind = "end" -> [dict |-> res, next |-> AfterEnd(i)]
        [] l.kind = "open" ->
             LET nested == parse_dict_from(ls, i + 1, EmptyDict, cs)
             IN  parse_dict_from(ls, nested.next, DictSet(res, l.key, PyDict(nested.dict)), cs)
        [] l.kind = "value" ->
             parse_dict_from(ls, i + 1, DictSet(res, l.key, parse_value(l.value_part, cs)), cs)
        [] OTHER -> parse_dict_from(ls, i + 1, res, cs)

parse_dict(ls, start_idx, cs) == parse_dict_from(ls, start_idx, EmptyDict, cs)

-----------------------------------------------------------------------------
(* ConfigParser.parse *)

\* What one line means at the root (lines 177-211), line already stripped
RootLine(line) ==
    IF line = <<>> THEN [kind |-> "blank", key |-> <<>>, value_part |-> <<>>]
    ELSE IF Contains(line, ":") /\ EndsWith(line, "{")
      THEN [kind |-> "open", key |-> Strip(SplitFirst(line, ":")[1]), value_part |-> <<>>]
    ELSE IF Contains(line, "=") /\ EndsWith(line, "{")
      THEN [kind |-> "open", key |-> Strip(SplitFirst(line, "=")[1]), value_part |-> <<>>]
    ELSE IF EndsWith(line, "{")
      THEN [kind |-> "open", key |-> Strip(SubSeq(line, 1, Len(line) - 1)), value_part |-> <<>>]
    ELSE IF Contains(line, ":")
      THEN [kind |-> "value", key |-> Strip(SplitFirst(line, ":")[1]),
            value_part |-> SplitFirst(line, ":")[2]]
    ELSE IF Contains(line, "=")
      THEN [kind |-> "value", key |-> Strip(SplitFirst(line, "=")[1]),
            value_part |-> SplitFirst(line, "=")[2]]
    ELSE [kind |-> "other", key |-> <<>>, value_part |-> <<>>]

\* lines 175-211: the loop over the root lines, from its state (d, i) on
RECURSIVE ParseRoot(_, _, _, _)
ParseRoot(ls, i, d, cs) ==
    IF i >= Len(ls) THEN d
    ELSE LET l == RootLine(Strip(ls[i + 1])) IN
      CASE l.kind = "open" ->
             LET nested == parse_dict(ls, i + 1, cs)
             IN  ParseRoot(ls, nested.next, DictSet(d, l.key, PyDict(nested.dict)), cs)
        [] l.kind = "value" ->
             ParseRoot(ls, i + 1, DictSet(d, l.key, parse_value(l.value_part, cs)), cs)
        [] OTHER -> ParseRoot(ls, i + 1, d, cs)

\* lines 213-216 without the test of line 215: every constant goes to the root
FoldConstantsOver(d, cs) ==
    [k \in DOMAIN d \cup DOMAIN cs |-> IF k \in DOMAIN cs THEN cs[k] ELSE d[k]]

\* lines 213-216: a constant goes to the root under a name the data does not hold
FoldConstants(d, cs) ==
    [k \in DOMAIN d \cup DOMAIN cs |-> IF k \in DOMAIN d THEN d[k] ELSE cs[k]]

\* lines 158-159 left out: the dict keeps what it held
ClearNothing(d) == d

\* dict.clear() (lines 158-159)
Clear(d) == EmptyDict

\* lines 171-173: the lines the loops read, from the cleaned text
DefineFreeLines(cleaned) == Split(StripDefines(cleaned, 1), "\n")

\* lines 156-218: self.constants and self.data at the return, from what the
\* instance held at the call
ParseCall(t, cs0, d0) ==
    LET cleaned == clean_text(t)
        cs      == ExtractDefines(cleaned, 1, Clear(cs0))
    IN  [constants |-> cs,
         data |-> FoldConstants(ParseRoot(DefineFreeLines(cleaned), 0, Clear(d0), cs), cs)]

\* what a fresh instance holds after parse(t)
ConstantsOf(t) == ParseCall(t, EmptyDict, EmptyDict).constants

LinesOf(t) == DefineFreeLines(clean_text(t))

\* ConfigParser().parse(t)
parse(t) == ParseCall(t, EmptyDict, EmptyDict).data

-----------------------------------------------------------------------------
(* TOMLConverter *)

HexDigits == <<"0", "1", "2", "3", "4", "5", "6", "7", "8", "9", "a", "b", "c", "d", "e", "f">>

\* lines 236-242: one character
EscapeChar(c) ==
    CASE c = "\\" -> <<"\\", "\\">>
      [] c = "\"" -> <<"\\", "\"">>
      [] c = "\n" -> <<"\\", "n">>
      [] c = "\t" -> <<"\\", "t">>
      [] c = "\r" -> <<"\\", "r">>
      [] c = "BS" -> <<"\\", "b">>
      [] c = "\f" -> <<"\\", "f">>
      [] OTHER -> IF Ord(c) < 32
                    THEN <<"\\", "u", "0", "0", HexDigits[(Ord(c) \div 16) + 1], HexDigits[(Ord(c) % 16) + 1]>>
                    ELSE <<c>>

\* lines 224-244
escape_string(s) == Join([i \in 1..Len(s) |-> EscapeChar(s[i])], <<>>)

Quoted(s) == <<"\"">> \o s \o <<"\"">>

\* repr(s) of a str, as str(list) prints its items
ReprChar(c, q) ==
    CASE c = "\\" -> <<"\\", "\\">>
      [] c = q -> <<"\\", c>>
      [] c = "\n" -> <<"\\", "n">>
      [] c = "\t" -> <<"\\", "t">>
      [] c = "\r" -> <<"\\", "r">>
      [] OTHER -> IF Ord(c) < 32
                    THEN <<"\\", "x", HexDigits[(Ord(c) \div 16) + 1], HexDigits[(Ord(c) % 16) + 1]>>
                    ELSE <<c>>

ReprStr(s) ==
    LET q == IF Contains(s, "'") /\ ~Contains(s, "\"") THEN "\"" ELSE "'"
    IN  <<q>> \o Join([i \in 1..Len(s) |-> ReprChar(s[i], q)], <<>>) \o <<q>>

\* str(v) of a value that is no dict; inside a list, repr of the items
RECURSIVE Repr(_)
Repr(v) ==
    CASE v.t = "str" -> ReprStr(v.v)
      [] v.t = "bool" -> IF v.v THEN <<"T", "r", "u", "e">> ELSE <<"F", "a", "l", "s", "e">>
      [] v.t = "int" -> IntStr(v.v)
      [] v.t = "float" -> FloatStr(v.v)
      [] v.t = "list" ->
           <<"[">> \o Join([i \in 1..Len(v.v) |-> Repr(v.v[i])], <<",", " ">>) \o <<"]">>

\* str(v) (lines 285, 287)
Str(v) == IF v.t = "str" THEN v.v ELSE Repr(v)

\* str(b).lower() (lines 273, 283)
BoolLower(b) == IF b THEN <<"t", "r", "u", "e">> ELSE <<"f", "a", "l", "s", "e">>

\* line 287: an item of a list that is itself an item of a list
InnerItem(i) == IF i.t = "str" THEN Quoted(i.v) ELSE Str(i)

\* lines 279-290: an item of a list value
Item(item) ==
    CASE item.t = "str" -> Quoted(escape_string(item.v))
      [] item.t = "bool" -> BoolLower(item.v)
      [] item.t \in {"int", "float"} -> Str(item)
      [] item.t = "list" ->
           <<"[">> \o Join([i \in 1..Len(item.v) |-> InnerItem(item.v[i])], <<",", " ">>) \o <<"]">>

\* lines 269-293: what follows "key = " for a value that is no dict
Literal(value) ==
    CASE value.t = "str" -> Quoted(escape_string(value.v))
      [] value.t = "bool" -> BoolLower(value.v)
      [] value.t \in {"int", "float"} -> Str(value)
      [] value.t = "list" ->
           <<"[">> \o Join([i \in 1..Len(value.v) |-> Item(value.v[i])], <<",", " ">>) \o <<"]">>

\* a < b for two str, as list.sort() compares them
RECURSIVE StrLess(_, _)
StrLess(a, b) ==
    IF b = <<>> THEN FALSE
    ELSE IF a = <<>> THEN TRUE
    ELSE IF a[1] = b[1] THEN StrLess(Tail(a), Tail(b))
    ELSE Ord(a[1]) < Ord(b[1])

\* sorted(S) for a set S of str (lines 263-264)
RECURSIVE Sorted(_)
Sorted(S) ==
    IF S = {} THEN <<>>
    ELSE LET least == CHOOSE k \in S : \A j \in S \ {k} : StrLess(k, j)
         IN  <<least>> \o Sorted(S \ {least})

\* '  ' * indent
RECURSIVE IndentStr(_)
IndentStr(indent) == IF indent = 0 THEN <<>> ELSE <<" ", " ">> \o IndentStr(indent - 1)

\* lines 299-302
FullPath(path, key) == IF path # <<>> THEN path \o <<".">> \o key ELSE key

\* lines 247-311; d is the contents of the dict data.  ToTomlLines is the list
\* `lines` at line 311.
RECURSIVE ToTomlLines(_, _, _)
RECURSIVE to_toml(_, _, _)

ToTomlLines(d, indent, path) ==
    LET simple_keys == Sorted({k \in DOMAIN d : d[k].t # "dict"})
        dict_keys   == Sorted({k \in DOMAIN d : d[k].t = "dict"})
        Section(key) ==
            << IndentStr(indent) \o <<"[">> \o FullPath(path, key) \o <<"]">>,
               to_toml(d[key].v, indent + 1, FullPath(path, key)) >>
        RECURSIVE Sections(_)
        Sections(keys) == IF keys = <<>> THEN <<>> ELSE Section(keys[1]) \o Sections(Tail(keys))
    IN  [i \in 1..Len(simple_keys) |->
            IndentStr(indent) \o simple_keys[i] \o <<" ", "=", " ">> \o Literal(d[simple_keys[i]])]
        \o Sections(dict_keys)

to_toml(d, indent, path) ==
    IF d = EmptyDict THEN <<>> ELSE Join(ToTomlLines(d, indent, path), <<"\n">>)

-----------------------------------------------------------------------------
(* The inputs: configuration texts made of the items below *)

\* a constant:
\*     (define port 8080)
ItemDefine ==
    << "(", "d", "e", "f", "i", "n", "e", " ", "p", "o", "r", "t", " ", "8", "0", "8", "0", ")" >>

\* a constant whose name is a boolean word, and a key bound to it:
\*     (define true 5);
\*     flag: true
ItemDefineTrue ==
    << "(", "d", "e", "f", "i", "n", "e", " ", "t", "r", "u", "e", " ", "5", ")", ";", "\n", "f", "l",
       "a", "g", ":", " ", "t", "r", "u", "e" >>

\* a block that uses the constant port:
\*     server: {
\*       host: "localhost"
\*       port: port
\*       tags: {"a", "b"}
\*     }
ItemServer ==
    << "s", "e", "r", "v", "e", "r", ":", " ", "{", "\n", " ", " ", "h", "o", "s", "t", ":", " ",
       "\"", "l", "o", "c", "a", "l", "h", "o", "s", "t", "\"", "\n", " ", " ", "p", "o", "r", "t",
       ":", " ", "p", "o", "r", "t", "\n", " ", " ", "t", "a", "g", "s", ":", " ", "{", "\"", "a",
       "\"", ",", " ", "\"", "b", "\"", "}", "\n", "}" >>

\* a root key bound to the bare word port, and a root key named port:
\*     p = port;
\*     port: 1.50
ItemRootUse ==
    << "p", " ", "=", " ", "p", "o", "r", "t", ";", "\n", "p", "o", "r", "t", ":", " ", "1", ".", "5",
       "0" >>

\* a block under the empty key, holding a block:
\*     {
\*       b {
\*         c: TRUE
\*       }
\*     }
ItemEmptyKey ==
    << "{", "\n", " ", " ", "b", " ", "{", "\n", " ", " ", " ", " ", "c", ":", " ", "T", "R", "U",
       "E", "\n", " ", " ", "}", "\n", "}" >>

\* an array holding a string and an array holding a string:
\*     k: {"a\b", {"c\d", 2}}
ItemArrays ==
    << "k", ":", " ", "{", "\"", "a", "\\", "b", "\"", ",", " ", "{", "\"", "c", "\\", "d", "\"", ",",
       " ", "2", "}", "}" >>

\* inside a block, a line with = that ends with {:
\*     a {
\*       k = x {
\*       z: 1
\*       }
\*     }
ItemEqOpen ==
    << "a", " ", "{", "\n", " ", " ", "k", " ", "=", " ", "x", " ", "{", "\n", " ", " ", "z", ":",
       " ", "1", "\n", " ", " ", "}", "\n", "}" >>

\* comments, a blank line, two scalars:
\*     # note
\*     n: 42 # answer
\*     
\*     s: 'hi'
ItemFlat ==
    << "#", " ", "n", "o", "t", "e", "\n", "n", ":", " ", "4", "2", " ", "#", " ", "a", "n", "s", "w",
       "e", "r", "\n", "\n", "s", ":", " ", "'", "h", "i", "'" >>

Pool == << ItemDefine, ItemDefineTrue, ItemServer, ItemRootUse, ItemEmptyKey, ItemArrays, ItemEqOpen, ItemFlat >>

\* how many items a text holds at most
MaxItems == 2

\* the members of a set of numbers in ascending order
Ascending(S) ==
    [i \in 1..Cardinality(S) |-> CHOOSE q \in S : Cardinality({j \in S : j <= q}) = i]

\* the items of the set S of pool positions, in the pool's order, one after the other
TextOf(S) == Join([i \in 1..Cardinality(S) |-> Pool[Ascending(S)[i]]], <<"\n">>)

Texts == {TextOf(S) : S \in {S \in SUBSET (1..Len(Pool)) : Cardinality(S) <= MaxItems}}

------------------------------------------------------------------------
(* One ConfigParser instance and its caller *)

\* the dict a returned reference denotes (line 218 returns self.data itself)
Tree(ref) == IF ref = "self.data" THEN data ELSE EmptyDict

\* no stepwise parse_dict call in progress
Idle ==
    /\ lines = <<>> /\ start = 0 /\ stack = <<>> /\ reads = <<>>
    /\ result = [state |-> "idle", dict |-> EmptyDict, next |-> 0]

\* ConfigParser() (lines 11-13); nothing parsed or serialised yet
Init ==
    /\ constants = EmptyDict
    /\ data = EmptyDict
    /\ ret = "none"
    /\ text = <<>>
    /\ out = "none"
    /\ dirty = FALSE
    /\ Idle

\* parser.parse(t) (lines 156-218).  dirty records whether the instance held
\* constants and data when the call began.
Parse(t) ==
    /\ \E call \in {ParseCall(t, constants, data)} :
           constants' = call.constants /\ data' = call.data
    /\ ret' = "self.data"
    /\ text' = t
    /\ out' = "none"
    /\ dirty' = (DOMAIN constants # {} /\ DOMAIN data # {})
    /\ UNCHANGED <<lines, start, stack, result, reads>>

\* TOMLConverter.to_toml(data) on the returned tree (line 322)
Serialize ==
    /\ ret # "none"
    /\ out = "none"
    /\ out' = to_toml(Tree(ret), 0, <<>>)
    /\ UNCHANGED <<constants, data, ret, text, dirty, lines, start, stack, result, reads>>

Next ==
    \/ \E t \in Texts : Parse(t)
    \/ Serialize

Spec == Init /\ [][Next]_vars

-----------------------------------------------------------------------------
(* ConfigParser.parse_dict, one loop iteration at a time *)

\* the lines a block is made of:  }   k: 1   a {   junk   and the blank line
DictLines == << <<"}">>, <<"k", ":", " ", "1">>, <<"a", " ", "{">>, <<"j", "u", "n", "k">>, <<>> >>

\* how many lines the argument of parse_dict holds at most
MaxDictLines == 4

\* every sequence of at most MaxDictLines of these lines
DictInputs ==
    UNION {[1..n -> {DictLines[k] : k \in 1..Len(DictLines)}] : n \in 0..MaxDictLines}

\* a call's frame: its index i, its result, and the key its caller binds the result to
Frame(i, res, key) == [i |-> i, result |-> res, key |-> key]

\* the frame of the innermost call
Top == stack[Len(stack)]

\* line 101, classified by lines 103-152
Current == DictLine(Strip(lines[Top.i + 1]))

\* the stack with the innermost frame replaced
Replace(frame) == SubSeq(stack, 1, Len(stack) - 1) \o <<frame>>

\* parse_dict(lines, start_idx) called (lines 95-99) on a fresh instance
DictInit ==
    /\ constants = EmptyDict
    /\ data = EmptyDict
    /\ ret = "none"
    /\ text = <<>>
    /\ out = "none"
    /\ dirty = FALSE
    /\ lines \in DictInputs
    /\ start \in 0..Len(lines)
    /\ stack = <<Frame(start, EmptyDict, <<>>)>>
    /\ result = [state |-> "running", dict |-> EmptyDict, next |-> 0]
    /\ reads = <<>>

\* lines 154, 109: the innermost call returns (result, next); a caller binds the
\* table under its key and goes on from next (lines 116-117, 126-127, 140-141, 149-150)
Return(next) ==
    IF Len(stack) = 1
      THEN /\ stack' = <<>>
           /\ result' = [state |-> "returned", dict |-> Top.result, next |-> next]
      ELSE /\ \E caller \in {stack[Len(stack) - 1]} :
                 stack' = SubSeq(stack, 1, Len(stack) - 2)
                            \o <<Frame(next, DictSet(caller.result, Top.key, PyDict(Top.result)), caller.key)>>
           /\ UNCHANGED result

\* lines 103-105, 151-152: a blank or unrecognised line is skipped
DictSkip ==
    /\ stack # <<>> /\ Top.i < Len(lines)
    /\ Current.kind \in {"blank", "other"}
    /\ stack' = Replace(Frame(Top.i + 1, Top.result, Top.key))
    /\ reads' = Append(reads, Top.i)
    /\ UNCHANGED <<constants, data, ret, text, out, dirty, lines, start, result>>

\* lines 128-132, 142-145: a value is bound
DictBind ==
    /\ stack # <<>> /\ Top.i < Len(lines)
    /\ Current.kind = "value"
    /\ stack' = Replace(Frame(Top.i + 1,
                              DictSet(Top.result, Current.key, parse_value(Current.value_part, constants)),
                              Top.key))
    /\ reads' = Append(reads, Top.i)
    /\ UNCHANGED <<constants, data, ret, text, out, dirty, lines, start, result>>

\* lines 115, 125, 139, 148: parse_dict(lines, i + 1) is called for a nested block
DictOpen ==
    /\ stack # <<>> /\ Top.i < Len(lines)
    /\ Current.kind = "open"
    /\ stack' = Append(stack, Frame(Top.i + 1, EmptyDict, Current.key))
    /\ reads' = Append(reads, Top.i)
    /\ UNCHANGED <<constants, data, ret, text, out, dirty, lines, start, result>>

\* lines 108-109: a closing line ends the innermost call
DictEnd ==
    /\ stack # <<>> /\ Top.i < Len(lines)
    /\ Current.kind = "end"
    /\ Return(AfterEnd(Top.i))
    /\ reads' = Append(reads, Top.i)
    /\ UNCHANGED <<constants, data, ret, text, out, dirty, lines, start>>

\* lines 100, 154: the lines are used up
DictEof ==
    /\ stack # <<>> /\ Top.i >= Len(lines)
    /\ Return(Top.i)
    /\ UNCHANGED <<constants, data, ret, text, out, dirty, lines, start, reads>>

DictNext == DictSkip \/ DictBind \/ DictOpen \/ DictEnd \/ DictEof

SpecDict == DictInit /\ [][DictNext]_vars

-----------------------------------------------------------------------------
(* Properties of the parser and the serializer *)

\* every table of a tree: the root and the tables nested in it
RECURSIVE Tables(_)
Tables(d) == {d} \cup UNION {Tables(d[k].v) : k \in {j \in DOMAIN d : d[j].t = "dict"}}

\* the lines the last parse call read
ReadLines == LinesOf(text)

\* the key a line binds
KeyOf(line) == DictLine(Strip(line)).key

\* the word a line binds its key to: the right-hand side without the blanks and
\* the ; around it, <<>> for a line that binds no value
Word(line) ==
    LET l  == DictLine(Strip(line))
        s1 == Strip(l.value_part)
    IN  IF l.kind # "value" THEN <<>>
        ELSE IF EndsWith(s1, ";") THEN Strip(SubSeq(s1, 1, Len(s1) - 1))
        ELSE s1

BooleanWords == {<<"t", "r", "u", "e">>, <<"f", "a", "l", "s", "e">>}

\* the lines that bind a key to the bare name of a constant among names
Uses(names) == {i \in 1..Len(ReadLines) : Word(ReadLines[i]) \in names}

\* the keys of the lines among uses are bound, in some table, to the value of the constant
Substituted(uses) ==
    \A i \in uses :
        \E tbl \in Tables(data) :
            /\ KeyOf(ReadLines[i]) \in DOMAIN tbl
            /\ tbl[KeyOf(ReadLines[i])] = constants[Word(ReadLines[i])]

\* what the root-level lines of the last text bind, before the constants are folded in
RootBound == ParseRoot(ReadLines, 0, EmptyDict, constants)

\* the lines of the serializer's output that are not empty
OutLines == SelectSeq(Split(out, "\n"), LAMBDA l : l # <<>>)

\* C1: idempotence of the pipeline: parsing the serialized text and serializing
\* the result again gives the same text, serialize(parse(serialize(parse(text))))
\* = serialize(parse(text))
C1_Idempotent ==
    out # "none" => to_toml(parse(out), 0, <<>>) = out

C3_OnlyUnusedFolded ==
    ret # "none" =>
        \A i \in Uses(DOMAIN constants \ BooleanWords) :
            Word(ReadLines[i]) \in DOMAIN data => Word(ReadLines[i]) \in DOMAIN RootBound

\* C4: data keys take precedence over constants: after parse the root maps
\* every name a root-level line bound to the data value, and a constant's value
\* stands only under a name no root-level line bound
C4_DataKeysFirst ==
    ret # "none" =>
        /\ DOMAIN data = DOMAIN RootBound \cup DOMAIN constants
        /\ \A k \in DOMAIN data :
               data[k] = IF k \in DOMAIN RootBound THEN RootBound[k] ELSE constants[k]

\* a parse has met a name that is a root key and a constant, with two different values
C4_Witness ==
    ret # "none" /\ \E k \in DOMAIN RootBound \cap DOMAIN constants : RootBound[k] # constants[k]

\* the lines the serializer owes a table: the key = literal lines in ascending
\* key order, then for every nested table in ascending key order its header,
\* the keys of the ancestors and its own joined by a dot, and its own lines
RECURSIVE Emission(_, _, _)
Emission(d, indent, ancestors) ==
    LET simple == Sorted({k \in DOMAIN d : d[k].t # "dict"})
        tables == Sorted({k \in DOMAIN d : d[k].t = "dict"})
        Header(key) ==
            IndentStr(indent) \o <<"[">> \o Join(ancestors \o <<key>>, <<".">>) \o <<"]">>
        RECURSIVE Sections(_)
        Sections(keys) ==
            IF keys = <<>> THEN <<>>
            ELSE <<Header(keys[1])>>
                   \o Emission(d[keys[1]].v, indent + 1, ancestors \o <<keys[1]>>)
                   \o Sections(Tail(keys))
    IN  [i \in 1..Len(simple) |->
            IndentStr(indent) \o simple[i] \o <<" ", "=", " ">> \o Literal(d[simple[i]])]
        \o Sections(tables)

\* C5: serializer ordering: at every level the key = literal lines in ascending
\* key order come first, then in ascending key order every nested table's
\* [path] header, path the ancestors' keys and its own joined by a dot, each
\* followed at once by that table's own lines
C5_Ordering ==
    out # "none" => OutLines = Emission(Tree(ret), 0, <<>>)

\* a value with every string in it quoted and escaped, at any depth of arrays
RECURSIVE EscapedLiteral(_)
EscapedLiteral(v) ==
    CASE v.t = "str" -> Quoted(escape_string(v.v))
      [] v.t = "list" ->
           <<"[">> \o Join([i \in 1..Len(v.v) |-> EscapedLiteral(v.v[i])], <<",", " ">>) \o <<"]">>
      [] OTHER -> Literal(v)

\* C6: uniform escaping: the line of every array value shows every string
\* item, at any array depth, double-quoted with the escaping table applied
C6_UniformEscaping ==
    out # "none" =>
        \A tbl \in Tables(Tree(ret)) :
            \A k \in {j \in DOMAIN tbl : tbl[j].t = "list"} :
                \E i \in 1..Len(OutLines) :
                    \E n \in 0..Len(OutLines[i]) :
                        OutLines[i] = IndentStr(n) \o k \o <<" ", "=", " ">> \o EscapedLiteral(tbl[k])

\* C7: a tree is immutable once produced: no later operation, a later parse on
\* the same instance included, changes the keys or values of a returned tree
C7_Immutable ==
    [][ret = "self.data" => data' = Tree(ret)]_vars

\* C8: parse is a pure function of its text across calls: whatever the
\* instance parsed before, it returns the tree, and holds the constants, a
\* fresh instance gets from the same text
C8_Pure ==
    ret # "none" => data = parse(text) /\ constants = ConstantsOf(text)

\* a parse, on an instance holding constants and root keys of an earlier call,
\* of a text that defines no constant
C8_Witness ==
    ret # "none" /\ dirty /\ DOMAIN constants = {}

\* a line without : that contains =, with its first = turned into :
EqAsColon(line) ==
    IF ~Contains(line, ":") /\ Contains(line, "=")
      THEN [line EXCEPT ![IndexOf(line, "=")] = ":"]
      ELSE line

\* C9: a line without : that contains = is handled as the : line with the
\* split at the first =, so the tree of a text is the tree of the text with
\* the first = of every such line written as :
C9_EqualsLikeColon ==
    ret # "none" =>
        data = FoldConstants(ParseRoot([i \in 1..Len(ReadLines) |-> EqAsColon(ReadLines[i])],
                                       0, EmptyDict, constants),
                             constants)

\* what is left to do in a parse_dict call: two for every line from the
\* innermost call's index on, one for every call that has not returned
DictMeasure ==
    IF stack = <<>> THEN 0 ELSE 2 * (Len(lines) - Top.i) + Len(stack)

\* a call is active, and it is at the end of the lines or at a line some
\* branch of the loop takes: a step is possible
DictCanStep ==
    /\ stack # <<>>
    /\ Top.i >= Len(lines) \/ Current.kind \in {"blank", "end", "open", "value", "other"}

\* what holds at every moment of a parse_dict call: as long as it has not
\* returned it can take a step; the indices read go strictly up, so no line is
\* read twice; a returned index lies between the start and the number of
\* lines, is one more than the index of the last line read when that line is
\* the closing one, and is the number of lines otherwise
DictProgress ==
    /\ result.state = "running" => DictCanStep
    /\ \A k \in 1..Len(stack) : start <= stack[k].i /\ stack[k].i <= Len(lines)
    /\ \A a, b \in 1..Len(reads) : a < b => reads[a] < reads[b]
    /\ \A a \in 1..Len(reads) : start <= reads[a] /\ reads[a] < Len(lines)
    /\ result.state = "returned" =>
         /\ start <= result.next /\ result.next <= Len(lines)
         /\ result.next = IF reads # <<>> /\ Strip(lines[reads[Len(reads)] + 1]) = <<"}">>
                            THEN reads[Len(reads)] + 1
                            ELSE Len(lines)
         /\ result.dict = parse_dict(lines, start, constants).dict
         /\ result.next = parse_dict(lines, start, constants).next

\* C10: block parsing makes progress and terminates: every step of parse_dict
\* brings what is left to do down, so it returns after finitely many steps, with
\* start_idx <= next <= len(lines); every iteration moves the index up, a
\* closing line at index j gives next = j + 1, and an input that ends with the
\* block open gives len(lines)
C10_Terminates ==
    []DictProgress /\ [][DictMeasure' < DictMeasure]_vars

\* a call has returned, before the end of the lines, a table that holds a nested table
C10_Witness ==
    /\ result.state = "returned"
    /\ result.next < Len(lines)
    /\ \E k \in DOMAIN result.dict : result.dict[k].t = "dict"

====
